---- MODULE Spec2Model ----
(***************************************************************************)
(* Smart Attendance System: the attendance routes of the backend (POST     *)
(* /session, POST /mark, GET /records), the location service they call,    *)
(* and the teacher dashboard's create-session form, over the two Firestore *)
(* collections 'sessions' and 'attendance'.                                *)
(*                                                                         *)
(* A handler is split at its awaits: the code between two awaits runs      *)
(* without interleaving (one JavaScript turn), the awaited storage         *)
(* operations of different requests interleave freely.                     *)
(***************************************************************************)
EXTENDS Integers, Sequences, FiniteSets, TLC

(***************************************************************************)
(* Bounds of the model.                                                    *)
(***************************************************************************)
NumReqs == 2          \* POST /mark requests in flight or finished
MaxNow == 2           \* the clock stops here (ms)
MaxSessionWrites == 2 \* writes to the 'sessions' collection
MaxCallbacks == 2     \* invocations of the scanner's success callback in flight
MaxScanners == 3      \* Html5QrcodeScanner instances created by one QRScanner
MaxDecodes == 3       \* QR codes decoded while one QRScanner lives
MaxStudentRecords == 51 \* attendance records stored for one student

(***************************************************************************)
(* Program constants.                                                      *)
(***************************************************************************)
DefaultRadius == 50   \* session.location.radiusMeters || 50
MsPerMinute == 60000  \* durationMinutes * 60000
EarthRadius == 6371000
DefaultLimit == 100   \* parseInt(req.query.limit) || 100
QueryLimit == 50      \* limit(50) of the student's history query
ShowLimit == 20       \* records.slice(0, 20)

Reqs == 1..NumReqs
Students == {"s1", "s2"}
Teachers == {"t1"}
\* the teachers with a dashboard open
Dashboards == Teachers \cup {"t2"}

\* Positions a client can report and a teacher can enter, as
\* (latitude, longitude) in degrees:
\*   classroom (18.516726, 73.856255)   at50 (18.517176, 73.856255)
\*   at51      (18.517185, 73.856255)   far  (18.692000, 73.856255)
\* and two that are no positions on Earth:
\*   lon433    (18.517176, 433.856255)  lat95 (95.000000, 73.856255)
\* and a point with its antipode:
\*   north4    (4.224739, 0)            south4 (-4.224739, 180)
Positions == {"at50", "at51"}
Origins == {"classroom"}
MalformedPositions == {"lon433", "lat95"}

\* (latitude, longitude) of the named positions, in microdegrees
Coordinates ==
  [p \in {"classroom", "at50", "at51", "far", "lon433", "lat95",
          "north4", "south4"} |->
    CASE p = "classroom" -> [latitude |-> 18516726, longitude |-> 73856255]
      [] p = "at50" -> [latitude |-> 18517176, longitude |-> 73856255]
      [] p = "at51" -> [latitude |-> 18517185, longitude |-> 73856255]
      [] p = "far" -> [latitude |-> 18692000, longitude |-> 73856255]
      [] p = "lon433" -> [latitude |-> 18517176, longitude |-> 433856255]
      [] p = "lat95" -> [latitude |-> 95000000, longitude |-> 73856255]
      [] p = "north4" -> [latitude |-> 4224739, longitude |-> 0]
      [] p = "south4" -> [latitude |-> -4224739, longitude |-> 180000000]]

\* JavaScript values that may be absent or not a number are tagged tuples:
\* <<"num", n>>, <<"undefined">>, <<"NaN">>; an ISO date string is <<"iso", ms>>.
Num(n) == <<"num", n>>
Undefined == <<"undefined">>
NaN == <<"NaN">>
IsNum(v) == v[1] = "num"

\* `SESSION_${Date.now()}`
SessionIdOf(ms) == <<"SESSION_", ms>>
NoId == <<"">>

\* !x for the fields of a request body: a missing or empty string is falsy
MissingId(v) == v = NoId
MissingStr(v) == v = ""

\* Date.prototype.toISOString and new Date(string): millisecond precision
\* both ways; anything that is no ISO string parses to an Invalid Date.
toISOString(ms) == <<"iso", ms>>
ParseDate(v) == IF v[1] = "iso" THEN Num(v[2]) ELSE NaN

IsAfter_inclusive(nowMs, expiry) == IsNum(expiry) /\ nowMs >= expiry[2]

\* now > expiryDate on Dates: false whenever expiryDate is invalid
IsAfter(nowMs, expiry) == IsNum(expiry) /\ nowMs > expiry[2]

\* x || 50 : the default replaces undefined, NaN and 0, nothing else
OrDefault(v, dflt) == IF IsNum(v) /\ v[2] # 0 THEN v[2] ELSE dflt

(***************************************************************************)
(* locationService.js                                                      *)
(***************************************************************************)
\* calculateDistance: Math.round(R * c) of the Haversine formula, evaluated in
\* IEEE doubles on the modelled positions (R = EarthRadius), from the first
\* position to the second.  Math.sqrt(1 - a) is NaN when rounding makes
\* a > 1, and then so is the result.
Haversine ==
  [ classroom |->
     [classroom |-> Num(0), at50 |-> Num(50), at51 |-> Num(51),
      far |-> Num(19490), lon433 |-> Num(50), lat95 |-> Num(8504552),
      north4 |-> Num(8157420), south4 |-> Num(11857667)],
   at50 |->
     [classroom |-> Num(50), at50 |-> Num(0), at51 |-> Num(1),
      far |-> Num(19440), lon433 |-> Num(0), lat95 |-> Num(8504502),
      north4 |-> Num(8157421), south4 |-> Num(11857666)],
   at51 |->
     [classroom |-> Num(51), at50 |-> Num(1), at51 |-> Num(0),
      far |-> Num(19439), lon433 |-> Num(1), lat95 |-> Num(8504501),
      north4 |-> Num(8157421), south4 |-> Num(11857666)],
   far |->
     [classroom |-> Num(19490), at50 |-> Num(19440), at51 |-> Num(19439),
      far |-> Num(0), lon433 |-> Num(19440), lat95 |-> Num(8485062),
      north4 |-> Num(8157799), south4 |-> Num(11857288)],
   lon433 |->
     [classroom |-> Num(50), at50 |-> Num(0), at51 |-> Num(1),
      far |-> Num(19440), lon433 |-> Num(0), lat95 |-> Num(8504502),
      north4 |-> Num(8157421), south4 |-> Num(11857666)],
   lat95 |->
     [classroom |-> Num(8504552), at50 |-> Num(8504502),
      at51 |-> Num(8504501), far |-> Num(8485062), lon433 |-> Num(8504502),
      lat95 |-> Num(0), north4 |-> Num(9693831), south4 |-> Num(10321256)],
   north4 |->
     [classroom |-> Num(8157420), at50 |-> Num(8157421),
      at51 |-> Num(8157421), far |-> Num(8157799), lon433 |-> Num(8157421),
      lat95 |-> Num(9693831), north4 |-> Num(0), south4 |-> NaN],
   south4 |->
     [classroom |-> Num(11857667), at50 |-> Num(11857666),
      at51 |-> Num(11857666), far |-> Num(11857288),
      lon433 |-> Num(11857666), lat95 |-> Num(10321256), north4 |-> NaN,
      south4 |-> Num(0)]]

\* the distances that are numbers
HaversineMeters ==
  [p \in DOMAIN Haversine |->
    [q \in {x \in DOMAIN Haversine : IsNum(Haversine[p][x])} |->
      Haversine[p][q][2]]]

\* calculateDistance on positions whose distance is a number
calculateDistance(p1, p2) == HaversineMeters[p1][p2]

verifyLocation_exclusive(studentPos, classPos, maxDistance) ==
  LET distance == calculateDistance(studentPos, classPos)
  IN  [valid |-> distance < maxDistance,
       distance |-> distance,
       maxDistance |-> maxDistance]

verifyLocation(studentPos, classPos, maxDistance) ==
  LET distance == calculateDistance(studentPos, classPos)
  IN  [valid |-> distance <= maxDistance,
       distance |-> distance,
       maxDistance |-> maxDistance]

(***************************************************************************)
(* State                                                                   *)
(***************************************************************************)
VARIABLES
  now,          \* Date.now(), in ms
  sessions,     \* Firestore collection 'sessions': document id -> data
  sessionWrites,\* writes to 'sessions' so far
  attendance,   \* Firestore collection 'attendance': documents in insertion order
  req,          \* the POST /mark requests
  dash,         \* the teacher dashboards (TeacherDashboard component state)
  fetched,      \* the last response of GET /records/:sessionId
  calc,         \* the last call of the haversine utility and its results
  auth,         \* AuthProvider state, the registration under way, the router
  scanner,      \* the QRScanner component of a student
  history       \* StudentDashboard: the attendance history shown

\* the state outside the attendance routes and the teacher dashboard
frontend == <<fetched, calc, auth, scanner, history>>

vars == <<now, sessions, sessionWrites, attendance, req, dash, frontend>>

\* sessionDoc.exists = false; also 'no session' in component state (null)
NoSession ==
  [sessionId |-> NoId, courseName |-> "", teacherId |-> "",
   location |-> [point |-> "", radiusMeters |-> Undefined],
   expiresAt |-> Undefined, createdAt |-> Undefined, active |-> FALSE]

\* locationCheck before verifyLocation has run
NoCheck == [valid |-> FALSE, distance |-> 0, maxDistance |-> 0]

\* A request: the body (sessionId, studentId, location), the handler's locals
\* while it runs (courseName of the session read, locationCheck, markedAt),
\* and the response once sent (status, success, outcome for the message,
\* distance, required = the allowed radius, course).  scanned and
\* afterSuccess record how the request arose.
IdleReq ==
  [pc |-> "idle", sessionId |-> NoId, studentId |-> "", location |-> "",
   scanned |-> FALSE, afterSuccess |-> FALSE,
   courseName |-> "", check |-> NoCheck, markedAt |-> Undefined,
   status |-> 0, success |-> FALSE, outcome |-> "",
   distance |-> Undefined, required |-> Undefined, course |-> ""]

IdleDash == [pc |-> "form", pending |-> NoSession, activeSession |-> NoSession]

\* no GET /records request answered yet
NoRecordsResponse ==
  [status |-> 0, success |-> FALSE, sessionId |-> NoId,
   limitParam |-> [present |-> FALSE, chars |-> <<>>], count |-> 0,
   records |-> <<>>]

\* no call of the haversine utility yet
NoCalc ==
  [called |-> FALSE, studentPos |-> "", classPos |-> "",
   maxDistance |-> Undefined, distance |-> Undefined, within |-> FALSE]

\* AuthProvider state (user, userRole, loading), Firebase Auth's current user,
\* the role in the profile document users/<uid> ("" = no document), the
\* auth-state listener (cb) with the result of its last role fetch, the
\* registration under way (reg, formRole), and the router's location
InitAuth ==
  [loading |-> TRUE, user |-> "", userRole |-> "",
   currentUser |-> "", profile |-> "", cb |-> "unsubscribed",
   lastFetch |-> "", reg |-> "idle", formRole |-> "", path |-> "/"]

\* the QRScanner component before it is mounted: its state (location,
\* scanning), its refs (scannerRef: 0 is null, otherwise a scanner instance),
\* the instances created so far and those still rendering, the codes decoded
\* and the invocations of onScanSuccess under way, the POSTs sent since the scanner was last
\* started, the restart timers armed, and the dashboard's message and
\* tab-switch timer
InitScanner ==
  [mounted |-> FALSE, unmounted |-> FALSE, location |-> FALSE,
   scannerInitialized |-> FALSE, scanning |-> TRUE,
   created |-> 0, active |-> {}, scannerRef |-> 0, decoded |-> 0,
   calls |-> [i \in 1..MaxCallbacks |-> "idle"],
   posts |-> 0, timers |-> 0, message |-> "", switchTimer |-> FALSE]

\* StudentDashboard: the markedAt (ms) of the records stored for the student,
\* attendanceHistory = [] (the markedAt of the records shown, in order), and
\* whether the last fetch failed
NoHistory == [stored |-> {}, shown |-> <<>>, error |-> FALSE]

Init ==
  /\ now = 0
  /\ sessions = [k \in {} |-> NoSession]
  /\ sessionWrites = 0
  /\ attendance = <<>>
  /\ req = [r \in Reqs |-> IdleReq]
  /\ dash = [t \in Dashboards |-> IdleDash]
  /\ fetched = NoRecordsResponse
  /\ calc = NoCalc
  /\ auth = InitAuth
  /\ scanner = InitScanner
  /\ history = NoHistory

\* doc(id).set(data) / addDoc(data): the collection with one document written
WithDoc(coll, key, data) ==
  [k \in (DOMAIN coll) \cup {key} |-> IF k = key THEN data ELSE coll[k]]

\* Firestore auto-generated document ids, never of the form SESSION_<ms>
AutoId(n) == <<"auto", n>>

(***************************************************************************)
(* The clock                                                               *)
(***************************************************************************)
Tick ==
  /\ now < MaxNow
  /\ now' = now + 1
  /\ UNCHANGED <<sessions, sessionWrites, attendance, req, dash, frontend>>

(***************************************************************************)
(* Inputs                                                                  *)
(***************************************************************************)
\* ids a caller of POST /session supplies
BackendIds == {SessionIdOf(0)}
\* location.radiusMeters in a POST /session body
BodyRadii == {Undefined, Num(0), Num(-5), Num(51)}
\* expiresAt in a POST /session body
BodyExpiries == {Undefined, toISOString(1)}
\* parseInt(sessionForm.radiusMeters), durationMinutes of the dashboard form
FormRadii == {Num(DefaultRadius)}
FormDurations == {0, 1}

\* bodies of POST /session lacking courseName, teacherId or location
IncompleteSessionBodies ==
  LET loc == [point |-> "classroom", radiusMeters |-> Num(DefaultRadius)]
      noLoc == [point |-> "", radiusMeters |-> Undefined]
  IN  {<<SessionIdOf(0), "", "t1", loc, toISOString(1)>>,
       <<SessionIdOf(0), "CS101", "", loc, toISOString(1)>>,
       <<SessionIdOf(0), "CS101", "t1", noLoc, toISOString(1)>>}

\* the QR payloads on display: <QRCodeSVG value={activeSession.sessionId} />
ShownQRs == {dash[t].activeSession.sessionId : t \in Teachers} \ {NoId}

\* bodies of POST /mark: complete ones, ones lacking a required field, and
\* ones whose location is no position on Earth
MarkBodies ==
  ((BackendIds \cup ShownQRs) \X Students \X Positions)
    \cup {<<NoId, "s1", "at50">>, <<SessionIdOf(0), "", "at50">>,
          <<SessionIdOf(0), "s1", "">>}
    \cup {<<SessionIdOf(0), "s1", p>> : p \in MalformedPositions}

(***************************************************************************)
(* POST /api/attendance/session                                            *)
(***************************************************************************)
PostSession(sessionId, courseName, teacherId, location, expiresAt) ==
  /\ sessionWrites < MaxSessionWrites
  /\ IF MissingId(sessionId) \/ MissingStr(courseName) \/ MissingStr(teacherId)
        \/ MissingStr(location.point)
     THEN UNCHANGED <<sessions, sessionWrites>>
     ELSE /\ sessions' = WithDoc(sessions, sessionId,
                           [sessionId |-> sessionId, courseName |-> courseName,
                            teacherId |-> teacherId, location |-> location,
                            expiresAt |-> expiresAt,
                            createdAt |-> toISOString(now), active |-> TRUE])
          /\ sessionWrites' = sessionWrites + 1
  /\ UNCHANGED <<now, attendance, req, dash, frontend>>

(***************************************************************************)
(* TeacherDashboard.handleCreateSession                                    *)
(***************************************************************************)
\* up to the await of addDoc
handleCreateSession(t, courseName, point, radius, durationMinutes) ==
  /\ dash[t].pc = "form"
  /\ sessionWrites < MaxSessionWrites
  /\ dash' = [dash EXCEPT ![t].pc = "adding",
                ![t].pending =
                  [sessionId |-> SessionIdOf(now), courseName |-> courseName,
                   teacherId |-> t,
                   location |-> [point |-> point, radiusMeters |-> radius],
                   expiresAt |-> toISOString(now + durationMinutes * MsPerMinute),
                   createdAt |-> toISOString(now), active |-> TRUE]]
  /\ UNCHANGED <<now, sessions, sessionWrites, attendance, req, frontend>>

\* addDoc(collection(db, 'sessions'), sessionData) resolves: the document is
\* stored under an auto-generated id, and the session becomes the QR shown
addDocDone(t) ==
  /\ dash[t].pc = "adding"
  /\ sessions' = WithDoc(sessions, AutoId(sessionWrites + 1), dash[t].pending)
  /\ sessionWrites' = sessionWrites + 1
  /\ dash' = [dash EXCEPT ![t].pc = "form", ![t].pending = NoSession,
                          ![t].activeSession = dash[t].pending]
  /\ UNCHANGED <<now, attendance, req, frontend>>

\* addDoc rejects: alert('Failed to create session')
addDocFailed(t) ==
  /\ dash[t].pc = "adding"
  /\ dash' = [dash EXCEPT ![t].pc = "form", ![t].pending = NoSession]
  /\ UNCHANGED <<now, sessions, sessionWrites, attendance, req, frontend>>

(***************************************************************************)
(* POST /api/attendance/mark                                               *)
(***************************************************************************)
\* the response with distance and allowed radius in each other's place
Respond_swapped(r, status, outcome) ==
  [r EXCEPT !.pc = "done", !.status = status, !.success = (status = 200),
            !.outcome = outcome,
            !.distance = IF outcome = "OutOfRange"
                         THEN Num(r.check.maxDistance)
                         ELSE IF outcome = "Success" THEN Num(r.check.distance)
                         ELSE Undefined,
            !.required = IF outcome = "OutOfRange"
                         THEN Num(r.check.distance) ELSE Undefined,
            !.course = IF outcome = "Success" THEN r.courseName ELSE "",
            !.courseName = "", !.check = NoCheck, !.markedAt = Undefined]

\* res.status(status).json({success, message, ...}): the handler returns, its
\* locals are gone
Respond(r, status, outcome) ==
  [r EXCEPT !.pc = "done", !.status = status, !.success = (status = 200),
            !.outcome = outcome,
            !.distance = IF outcome \in {"OutOfRange", "Success"}
                         THEN Num(r.check.distance) ELSE Undefined,
            !.required = IF outcome = "OutOfRange"
                         THEN Num(r.check.maxDistance) ELSE Undefined,
            !.course = IF outcome = "Success" THEN r.courseName ELSE "",
            !.courseName = "", !.check = NoCheck, !.markedAt = Undefined]

\* the duplicate query by session alone
ExistingAttendance_anyStudent(sessionId, studentId) ==
  {i \in 1..Len(attendance) : attendance[i].sessionId = sessionId}

\* the duplicate query left out
ExistingAttendance_skipped(sessionId, studentId) == {}

\* the documents of 'attendance' matching where(sessionId).where(studentId)
ExistingAttendance(sessionId, studentId) ==
  {i \in 1..Len(attendance) :
     /\ attendance[i].sessionId = sessionId
     /\ attendance[i].studentId = studentId}

\* a finished attempt of the same student for the same session succeeded
SucceededBefore(sessionId, studentId) ==
  \E q \in Reqs : /\ req[q].pc = "done"
                  /\ req[q].outcome = "Success"
                  /\ req[q].sessionId = sessionId
                  /\ req[q].studentId = studentId

\* request received: required-field check, then the session read is issued
MarkReceive(r, sessionId, studentId, location) ==
  /\ req[r].pc = "idle"
  \* requests are numbered as they arrive, students as they first appear
  /\ \A q \in Reqs : q < r => req[q].pc # "idle"
  /\ studentId = "s2" => \E q \in Reqs : q < r /\ req[q].studentId = "s1"
  /\ LET got == [req[r] EXCEPT !.sessionId = sessionId, !.studentId = studentId,
                               !.location = location,
                               !.scanned = sessionId \in ShownQRs,
                               !.afterSuccess = SucceededBefore(sessionId, studentId)]
     IN  req' = [req EXCEPT ![r] =
           IF MissingId(sessionId) \/ MissingStr(studentId) \/ MissingStr(location)
           THEN Respond(got, 400, "MissingFields")
           ELSE [got EXCEPT !.pc = "awaitSession"]]
  /\ UNCHANGED <<now, sessions, sessionWrites, attendance, dash, frontend>>

\* steps 1-3 once the session read has resolved: which response, if any, ends
\* the attempt ("" = none, the attempt goes on to step 4)
Verdict_geofenceFirst(exists, session, location, nowMs) ==
  LET allowedRadius == OrDefault(session.location.radiusMeters, DefaultRadius)
      locationCheck == verifyLocation(location, session.location.point, allowedRadius)
  IN  IF ~exists THEN "InvalidSession"
      ELSE IF ~locationCheck.valid THEN "OutOfRange"
      ELSE IF IsAfter(nowMs, ParseDate(session.expiresAt)) THEN "Expired"
      ELSE ""

Verdict_unknownIsExpired(exists, session, location, nowMs) ==
  LET allowedRadius == OrDefault(session.location.radiusMeters, DefaultRadius)
  IN  IF ~exists \/ IsAfter(nowMs, ParseDate(session.expiresAt)) THEN "Expired"
      ELSE IF ~verifyLocation(location, session.location.point, allowedRadius).valid
        THEN "OutOfRange"
      ELSE ""

\* the flag consulted, as the comment of step 1 has it ("exists and is active")
Verdict_activeRequired(exists, session, location, nowMs) ==
  LET allowedRadius == OrDefault(session.location.radiusMeters, DefaultRadius)
  IN  IF ~exists \/ ~session.active THEN "InvalidSession"
      ELSE IF IsAfter(nowMs, ParseDate(session.expiresAt)) THEN "Expired"
      ELSE IF ~verifyLocation(location, session.location.point, allowedRadius).valid
        THEN "OutOfRange"
      ELSE ""

Verdict(exists, session, location, nowMs) ==
  LET expiryDate == ParseDate(session.expiresAt)
      allowedRadius == OrDefault(session.location.radiusMeters, DefaultRadius)
      locationCheck == verifyLocation(location, session.location.point, allowedRadius)
  IN  IF ~exists THEN "InvalidSession"
      ELSE IF IsAfter(nowMs, expiryDate) THEN "Expired"
      ELSE IF ~locationCheck.valid THEN "OutOfRange"
      ELSE ""

\* the session read resolves; steps 1-3 run; the duplicate query is issued
MarkSessionLoaded(r) ==
  /\ req[r].pc = "awaitSession"
  /\ LET exists == req[r].sessionId \in DOMAIN sessions
         session == IF exists THEN sessions[req[r].sessionId] ELSE NoSession
         allowedRadius == OrDefault(session.location.radiusMeters, DefaultRadius)
         locationCheck == verifyLocation(req[r].location, session.location.point,
                                         allowedRadius)
         verdict == Verdict(exists, session, req[r].location, now)
         loaded == [req[r] EXCEPT !.courseName = session.courseName]
     IN  req' = [req EXCEPT ![r] =
           CASE verdict = "InvalidSession" -> Respond(req[r], 404, "InvalidSession")
             [] verdict = "Expired" -> Respond(loaded, 400, "Expired")
             [] verdict = "OutOfRange" ->
                  Respond([loaded EXCEPT !.check = locationCheck], 400, "OutOfRange")
             [] OTHER -> [loaded EXCEPT !.check = locationCheck, !.pc = "awaitDup"]]
  /\ UNCHANGED <<now, sessions, sessionWrites, attendance, dash, frontend>>

\* step 4: the duplicate query resolves; step 5 builds the record and issues add
MarkDupLoaded(r) ==
  /\ req[r].pc = "awaitDup"
  /\ req' = [req EXCEPT ![r] =
       IF ExistingAttendance(req[r].sessionId, req[r].studentId) # {}
       THEN Respond(req[r], 400, "AlreadyMarked")
       ELSE [req[r] EXCEPT !.pc = "awaitAdd", !.markedAt = toISOString(now)]]
  /\ UNCHANGED <<now, sessions, sessionWrites, attendance, dash, frontend>>

\* attendanceData of step 5
AttendanceData(r) ==
  [sessionId |-> req[r].sessionId, studentId |-> req[r].studentId,
   courseName |-> req[r].courseName, markedAt |-> req[r].markedAt,
   distance |-> req[r].check.distance, location |-> req[r].location]

\* doc(studentId).set(attendanceData) in place of add(): an earlier record of
\* the student is replaced
MarkAddDone_set(r) ==
  /\ req[r].pc = "awaitAdd"
  /\ LET old == {i \in 1..Len(attendance) : attendance[i].studentId = req[r].studentId}
     IN  attendance' = IF old = {} THEN Append(attendance, AttendanceData(r))
                       ELSE [i \in 1..Len(attendance) |->
                               IF i \in old THEN AttendanceData(r) ELSE attendance[i]]
  /\ req' = [req EXCEPT ![r] =
       Respond(req[r], 200, "Success")]
  /\ UNCHANGED <<now, sessions, sessionWrites, dash, frontend>>

\* db.collection('attendance').add(attendanceData) resolves (a rejected add
\* has stored nothing); success response
MarkAddDone(r) ==
  /\ req[r].pc = "awaitAdd"
  /\ attendance' = Append(attendance, AttendanceData(r))
  /\ req' = [req EXCEPT ![r] =
       Respond(req[r], 200, "Success")]
  /\ UNCHANGED <<now, sessions, sessionWrites, dash, frontend>>

\* a retry: a failed duplicate query sends the attempt back to the session read
MarkStorageError_retry(r) ==
  /\ req[r].pc \in {"awaitSession", "awaitDup", "awaitAdd"}
  /\ req' = [req EXCEPT ![r] =
       IF req[r].pc = "awaitDup"
       THEN [req[r] EXCEPT !.pc = "awaitSession", !.check = NoCheck,
                           !.courseName = ""]
       ELSE Respond(req[r], 500, "StorageError")]
  /\ UNCHANGED <<now, sessions, sessionWrites, attendance, dash, frontend>>

\* the failure swallowed: the catch block answers as if the attempt went through
MarkStorageError_swallowed(r) ==
  /\ req[r].pc \in {"awaitSession", "awaitDup", "awaitAdd"}
  /\ req' = [req EXCEPT ![r] = Respond(req[r], 200, "Success")]
  /\ UNCHANGED <<now, sessions, sessionWrites, attendance, dash, frontend>>

\* an awaited storage operation rejects: the catch block answers 500
MarkStorageError(r) ==
  /\ req[r].pc \in {"awaitSession", "awaitDup", "awaitAdd"}
  /\ req' = [req EXCEPT ![r] = Respond(req[r], 500, "StorageError")]
  /\ UNCHANGED <<now, sessions, sessionWrites, attendance, dash, frontend>>

(***************************************************************************)
(* Specification                                                           *)
(***************************************************************************)
MarkStep ==
  \/ \E r \in Reqs, b \in MarkBodies : MarkReceive(r, b[1], b[2], b[3])
  \/ \E r \in Reqs : MarkSessionLoaded(r)
  \/ \E r \in Reqs : MarkDupLoaded(r)
  \/ \E r \in Reqs : MarkAddDone(r)
  \/ \E r \in Reqs : MarkStorageError(r)

\* The backend alone: its clients create sessions through POST /session
Next ==
  \/ Tick
  \/ \E id \in BackendIds \cup {NoId}, p \in Origins, rad \in BodyRadii,
        e \in BodyExpiries :
       PostSession(id, "CS101", "t1", [point |-> p, radiusMeters |-> rad], e)
  \/ \E b \in IncompleteSessionBodies : PostSession(b[1], b[2], b[3], b[4], b[5])
  \/ MarkStep

Spec == Init /\ [][Next]_vars

\* The backend together with the teacher dashboard, which writes its sessions
\* to Firestore itself
NextDash ==
  \/ Tick
  \/ \E id \in BackendIds, p \in Origins :
       PostSession(id, "CS101", "t1", [point |-> p, radiusMeters |-> Undefined],
                   toISOString(1))
  \/ \E t \in Teachers, p \in Origins, rad \in FormRadii, d \in FormDurations :
       handleCreateSession(t, "CS101", p, rad, d)
  \/ \E t \in Teachers : addDocDone(t)
  \/ \E t \in Teachers : addDocFailed(t)
  \/ MarkStep

SpecDash == Init /\ [][NextDash]_vars

\* The dashboards of two teachers creating sessions
NextCreate ==
  \/ Tick
  \/ \E t \in Dashboards, p \in Origins, rad \in FormRadii, d \in FormDurations :
       handleCreateSession(t, "CS101", p, rad, d)
  \/ \E t \in Dashboards : addDocDone(t)
  \/ \E t \in Dashboards : addDocFailed(t)

SpecCreate == Init /\ [][NextCreate]_vars

\* The backend with every awaited Firestore operation of a request settling
\* (resolved or rejected) in the end
Settle(r) ==
  MarkSessionLoaded(r) \/ MarkDupLoaded(r) \/ MarkAddDone(r) \/ MarkStorageError(r)

SpecLive == Init /\ [][Next]_vars /\ \A r \in Reqs : WF_vars(Settle(r))

(***************************************************************************)
(* GET /api/attendance/records/:sessionId                                  *)
(***************************************************************************)
\* req.query.limit: absent, or a string given as its characters
NoParam == [present |-> FALSE, chars |-> <<>>]
Param(chars) == [present |-> TRUE, chars |-> chars]
LimitParams ==
  {NoParam, Param(<<"a", "b", "c">>), Param(<<"0">>), Param(<<"1">>),
   Param(<<"2", "x">>)}

Digits == {"0", "1", "2", "3", "4", "5", "6", "7", "8", "9"}
DigitValue(c) ==
  CASE c = "0" -> 0 [] c = "1" -> 1 [] c = "2" -> 2 [] c = "3" -> 3
    [] c = "4" -> 4 [] c = "5" -> 5 [] c = "6" -> 6 [] c = "7" -> 7
    [] c = "8" -> 8 [] c = "9" -> 9

\* the value of the first n characters of chars, all digits
RECURSIVE DecimalValue(_, _)
DecimalValue(chars, n) ==
  IF n = 0 THEN 0 ELSE 10 * DecimalValue(chars, n - 1) + DigitValue(chars[n])

\* parseInt(v) for an absent value or a string without sign and blanks: the
\* longest prefix of digits, NaN when there is none
parseInt(v) ==
  LET lead == {n \in 0..Len(v.chars) : \A i \in 1..n : v.chars[i] \in Digits}
      n == CHOOSE m \in lead : \A k \in lead : k <= m
  IN  IF ~v.present \/ n = 0 THEN NaN ELSE Num(DecimalValue(v.chars, n))

\* ids of sessions whose records are asked for
RecordIds == {SessionIdOf(0), SessionIdOf(1)}

\* the query with the newest records last
RecordsQuery_ascending(sessionId, limit) ==
  LET match == {i \in 1..Len(attendance) : attendance[i].sessionId = sessionId}
      n == IF limit < Cardinality(match) THEN limit ELSE Cardinality(match)
  IN  {[k \in 1..n |-> attendance[f[k]]] :
         f \in {g \in [1..Cardinality(match) -> match] :
                  /\ \A a, b \in 1..Cardinality(match) : a # b => g[a] # g[b]
                  /\ \A a, b \in 1..Cardinality(match) :
                       a < b => attendance[g[a]].markedAt[2]
                                  <= attendance[g[b]].markedAt[2]}}

\* where('sessionId', '==', sessionId).orderBy('markedAt', 'desc').limit(limit):
\* the results the query can give (records with equal markedAt come in the
\* order of their document ids, which are random)
RecordsQuery(sessionId, limit) ==
  LET match == {i \in 1..Len(attendance) : attendance[i].sessionId = sessionId}
      n == IF limit < Cardinality(match) THEN limit ELSE Cardinality(match)
  IN  {[k \in 1..n |-> attendance[f[k]]] :
         f \in {g \in [1..Cardinality(match) -> match] :
                  /\ \A a, b \in 1..Cardinality(match) : a # b => g[a] # g[b]
                  /\ \A a, b \in 1..Cardinality(match) :
                       a < b => attendance[g[a]].markedAt[2]
                                  >= attendance[g[b]].markedAt[2]}}

\* the handler with its query answered
GetRecords(sessionId, limitParam) ==
  /\ LET limit == OrDefault(parseInt(limitParam), DefaultLimit)
     IN  \E records \in RecordsQuery(sessionId, limit) :
           fetched' = [status |-> 200, success |-> TRUE, sessionId |-> sessionId,
                       limitParam |-> limitParam, count |-> Len(records),
                       records |-> records]
  /\ UNCHANGED <<now, sessions, sessionWrites, attendance, req, dash,
                 calc, auth, scanner, history>>

\* the query rejects: the catch block answers 500
GetRecordsFailed(sessionId, limitParam) ==
  /\ fetched' = [status |-> 500, success |-> FALSE, sessionId |-> sessionId,
                 limitParam |-> limitParam, count |-> 0, records |-> <<>>]
  /\ UNCHANGED <<now, sessions, sessionWrites, attendance, req, dash,
                 calc, auth, scanner, history>>

\* The backend with two sessions, students marking from inside the range, and
\* a teacher asking for the records
NextRecords ==
  \/ Tick
  \/ \E id \in RecordIds :
       PostSession(id, "CS101", "t1",
                   [point |-> "classroom", radiusMeters |-> Undefined], Undefined)
  \/ \E r \in Reqs, id \in RecordIds, st \in Students :
       MarkReceive(r, id, st, "at50")
  \/ \E r \in Reqs : MarkSessionLoaded(r)
  \/ \E r \in Reqs : MarkDupLoaded(r)
  \/ \E r \in Reqs : MarkAddDone(r)
  \/ \E r \in Reqs : MarkStorageError(r)
  \/ \E id \in RecordIds, lim \in LimitParams : GetRecords(id, lim)
  \/ \E id \in RecordIds, lim \in LimitParams : GetRecordsFailed(id, lim)

SpecRecords == Init /\ [][NextRecords]_vars

(***************************************************************************)
(* haversine.js                                                            *)
(***************************************************************************)
\* maxDistance as passed to isWithinRange; left out, it is 50
MaxDistances == {Undefined, Num(0), Num(DefaultRadius), Num(51)}

\* isWithinRange(studentLat, studentLon, classLat, classLon, maxDistance = 50):
\* the call, the distance calculateDistance returned and the answer
isWithinRange(studentPos, classPos, maxDistance) ==
  /\ LET limit == IF maxDistance = Undefined THEN DefaultRadius
                  ELSE maxDistance[2]
         distance == Haversine[studentPos][classPos]
     IN  calc' = [called |-> TRUE, studentPos |-> studentPos,
                  classPos |-> classPos, maxDistance |-> maxDistance,
                  distance |-> distance,
                  within |-> IsNum(distance) /\ distance[2] <= limit]
  /\ UNCHANGED <<now, sessions, sessionWrites, attendance, req, dash,
                 fetched, auth, scanner, history>>

NextDistance ==
  \E p \in DOMAIN Coordinates, q \in DOMAIN Coordinates, m \in MaxDistances :
    isWithinRange(p, q, m)

SpecDistance == Init /\ [][NextDistance]_vars

(***************************************************************************)
(* QRScanner.onScanSuccess, StudentDashboard                               *)
(***************************************************************************)
\* response.ok
ResponseOk(status) == status \in 200..299

\* what the scanner does with the response of POST /mark: the callback it
\* calls, the type of the message the dashboard then shows, and whether the
\* scanner is started again for another scan
onScanSuccess(status, success) ==
  IF ResponseOk(status) /\ success
  THEN [callback |-> "onSuccess", message |-> "success", scanning |-> FALSE]
  ELSE [callback |-> "onError", message |-> "error", scanning |-> TRUE]

ScannerUnchanged ==
  UNCHANGED <<now, sessions, sessionWrites, attendance, req, dash,
              fetched, calc, auth, history>>

\* the responses of POST /mark the scanner can get: <<status, success>>
MarkResponses == {<<200, TRUE>>, <<200, FALSE>>, <<403, FALSE>>, <<500, FALSE>>}

\* initializeScanner: a new Html5QrcodeScanner is created and rendered, and
\* scannerRef points at it
initializeScanner(s) ==
  [s EXCEPT !.created = @ + 1, !.active = @ \cup {s.created + 1},
            !.scannerRef = s.created + 1, !.posts = 0]

\* the student dashboard shows the scan tab: QRScanner mounts and asks for
\* the position once
Mount ==
  /\ ~scanner.mounted /\ ~scanner.unmounted
  /\ scanner' = [scanner EXCEPT !.mounted = TRUE]
  /\ ScannerUnchanged

\* getCurrentPosition succeeds: setLocation, and the effect on [location]
\* initializes the scanner once
LocationAcquired ==
  /\ scanner.mounted /\ ~scanner.location
  /\ scanner' = [initializeScanner(scanner) EXCEPT
                   !.location = TRUE, !.scannerInitialized = TRUE]
  /\ ScannerUnchanged

\* a rendering scanner decodes a QR code and calls onScanSuccess, which runs
\* up to its await of scannerRef.current.clear()
Decode(sc, i) ==
  /\ sc \in scanner.active
  /\ scanner.calls[i] \in {"idle", "done"}
  /\ scanner.decoded < MaxDecodes
  /\ scanner' = [scanner EXCEPT !.scanning = FALSE, !.decoded = @ + 1,
                                !.calls[i] = "awaitClear"]
  /\ ScannerUnchanged

\* clear() resolves: the scanner scannerRef points at is stopped, and the
\* invocation sends its POST /api/attendance/mark
ClearDone(i) ==
  /\ scanner.calls[i] = "awaitClear"
  /\ scanner' = [scanner EXCEPT !.active = @ \ {scanner.scannerRef},
                                !.posts = @ + 1,
                                !.calls[i] = "awaitFetch"]
  /\ ScannerUnchanged

\* clear() of a scanner that another invocation has already stopped may
\* reject; the rejection is outside the try block and ends the invocation
ClearFailed(i) ==
  /\ scanner.calls[i] = "awaitClear"
  /\ scanner.scannerRef \notin scanner.active
  /\ scanner' = [scanner EXCEPT !.calls[i] = "done"]
  /\ ScannerUnchanged

\* the response arrives: onSuccess (the dashboard shows the message and arms
\* its switch to the history tab), or onError, setScanning(true) and the
\* restart timer
FetchDone(i, response) ==
  /\ scanner.calls[i] = "awaitFetch"
  /\ LET shown == onScanSuccess(response[1], response[2])
     IN  scanner' =
           IF shown.callback = "onSuccess"
           THEN [scanner EXCEPT !.calls[i] = "done",
                                !.message = shown.message,
                                !.switchTimer = TRUE]
           ELSE [scanner EXCEPT !.calls[i] = "done",
                                !.message = shown.message,
                                !.scanning = IF scanner.mounted
                                             THEN shown.scanning ELSE @,
                                !.timers = @ + 1]
  /\ ScannerUnchanged

\* fetch rejects: onError('Network error...'), setScanning(true) and the
\* restart timer
FetchFailed(i) ==
  /\ scanner.calls[i] = "awaitFetch"
  /\ scanner' = [scanner EXCEPT !.calls[i] = "done", !.message = "error",
                                !.scanning = IF scanner.mounted
                                             THEN TRUE ELSE @,
                                !.timers = @ + 1]
  /\ ScannerUnchanged

\* a restart timer fires after its 2 seconds: initializeScanner()
RestartTimerFires ==
  /\ scanner.timers > 0
  /\ scanner.created < MaxScanners
  /\ scanner' = [initializeScanner(scanner) EXCEPT !.timers = @ - 1]
  /\ ScannerUnchanged

\* the scan tab is left, by the student or by the dashboard's timer after a
\* success: QRScanner unmounts and its cleanup clears scannerRef.current
Unmount ==
  /\ scanner.mounted
  /\ scanner' = [scanner EXCEPT !.mounted = FALSE, !.unmounted = TRUE,
                                !.switchTimer = FALSE,
                                !.active = @ \ {scanner.scannerRef}]
  /\ ScannerUnchanged

NextScanner ==
  \/ Mount
  \/ LocationAcquired
  \/ \E sc \in 1..MaxScanners, i \in 1..MaxCallbacks : Decode(sc, i)
  \/ \E i \in 1..MaxCallbacks : ClearDone(i)
  \/ \E i \in 1..MaxCallbacks : ClearFailed(i)
  \/ \E i \in 1..MaxCallbacks, response \in MarkResponses :
       FetchDone(i, response)
  \/ \E i \in 1..MaxCallbacks : FetchFailed(i)
  \/ RestartTimerFires
  \/ Unmount

SpecScanner == Init /\ [][NextScanner]_vars

(***************************************************************************)
(* StudentDashboard.fetchAttendanceHistory                                 *)
(***************************************************************************)
HistoryUnchanged ==
  UNCHANGED <<now, sessions, sessionWrites, attendance, req, dash,
              fetched, calc, auth, scanner>>

\* one more attendance record of the student is stored, marked later than
\* those stored before
RecordStored ==
  /\ Cardinality(history.stored) < MaxStudentRecords
  /\ history' = [history EXCEPT
                   !.stored = @ \cup {Cardinality(history.stored) + 1}]
  /\ HistoryUnchanged

\* query(collection 'attendance', where studentId == uid, limit(50)): the
\* query names no order, so which records are left out when more than 50
\* match is not determined by markedAt; the sets of records it can return
HistoryQuery(stored) ==
  IF Cardinality(stored) <= QueryLimit
  THEN {stored}
  ELSE {stored \ omitted :
          omitted \in {o \in {{a, b} : a, b \in stored} :
                         Cardinality(stored \ o) = QueryLimit}}

\* records.sort((a, b) => new Date(b.markedAt) - new Date(a.markedAt))
RECURSIVE SortByMarkedAtDesc(_)
SortByMarkedAtDesc(records) ==
  IF records = {} THEN <<>>
  ELSE LET latest == CHOOSE x \in records : \A y \in records : y <= x
       IN  <<latest>> \o SortByMarkedAtDesc(records \ {latest})

\* array.slice(0, n)
Slice(seq, n) == SubSeq(seq, 1, IF Len(seq) < n THEN Len(seq) ELSE n)

\* fetchAttendanceHistory when getDocs resolves
fetchAttendanceHistory ==
  /\ \E records \in HistoryQuery(history.stored) :
       history' = [history EXCEPT
                     !.shown = Slice(SortByMarkedAtDesc(records), ShowLimit),
                     !.error = FALSE]
  /\ HistoryUnchanged

\* fetchAttendanceHistory when getDocs rejects: the error message is shown
\* and the list stays as it was
fetchAttendanceFailed ==
  /\ history' = [history EXCEPT !.error = TRUE]
  /\ HistoryUnchanged

NextHistory ==
  \/ RecordStored
  \/ fetchAttendanceHistory
  \/ fetchAttendanceFailed

SpecHistory == Init /\ [][NextHistory]_vars

(***************************************************************************)
(* AuthContext.jsx, Register.jsx, App.jsx                                  *)
(***************************************************************************)
Roles == {"teacher", "student"}
Paths == {"/", "/login", "/register", "/dashboard", "/other"}

\* what <Routes> renders at a path: a page, or <Navigate to=... replace />
Page(name) == [page |-> name, to |-> ""]
NavigateTo(path) == [page |-> "", to |-> path]

\* DashboardRouter
DashboardRouter(userRole) ==
  IF userRole = "teacher" THEN Page("TeacherDashboard")
  ELSE IF userRole = "student" THEN Page("StudentDashboard")
  ELSE NavigateTo("/login")

\* ProtectedRoute without requiredRole, as /dashboard uses it
ProtectedRoute(user, userRole, loading, children) ==
  IF loading THEN Page("spinner")
  ELSE IF user = "" THEN NavigateTo("/login")
  ELSE children

\* AppRoutes
AppRoutes(path, user, userRole, loading) ==
  CASE path = "/login" ->
         IF user # "" THEN NavigateTo("/dashboard") ELSE Page("Login")
    [] path = "/register" ->
         IF user # "" THEN NavigateTo("/dashboard") ELSE Page("Register")
    [] path = "/dashboard" ->
         ProtectedRoute(user, userRole, loading, DashboardRouter(userRole))
    [] path = "/" -> NavigateTo("/login")
    [] OTHER -> NavigateTo(IF user # "" THEN "/dashboard" ELSE "/login")

\* what the app shows: AuthProvider renders its children only when not loading
Rendered == 
  IF auth.loading THEN Page("")
  ELSE AppRoutes(auth.path, auth.user, auth.userRole, auth.loading)

AuthUnchanged ==
  UNCHANGED <<now, sessions, sessionWrites, attendance, req, dash,
              fetched, calc, scanner, history>>

\* the app is loaded at a path; Firebase Auth has a persisted user or none,
\* whose profile document holds a role or is missing; the effect subscribes
\* and the listener is called with the current user
AppLoad(path, persisted, storedRole) ==
  /\ auth.cb = "unsubscribed"
  /\ auth' = [auth EXCEPT !.path = path,
                          !.currentUser = IF persisted THEN "u1" ELSE "",
                          !.profile = IF persisted THEN storedRole ELSE "",
                          !.cb = "called"]
  /\ AuthUnchanged

\* the onAuthStateChanged callback up to its await
AuthCallback ==
  /\ auth.cb = "called"
  /\ auth' = IF auth.currentUser # ""
             THEN [auth EXCEPT !.user = auth.currentUser, !.cb = "awaitGetDoc"]
             ELSE [auth EXCEPT !.user = "", !.userRole = "",
                               !.loading = FALSE, !.cb = "idle"]
  /\ AuthUnchanged

\* fetchUserRole: getDoc resolves with the profile as it is stored now
GetDocDone ==
  /\ auth.cb = "awaitGetDoc"
  /\ auth' = [auth EXCEPT
                !.userRole = IF auth.profile # "" THEN auth.profile ELSE @,
                !.lastFetch = IF auth.profile # "" THEN "found" ELSE "missing",
                !.loading = FALSE, !.cb = "idle"]
  /\ AuthUnchanged

\* fetchUserRole: getDoc rejects; the error is logged
GetDocFailed ==
  /\ auth.cb = "awaitGetDoc"
  /\ auth' = [auth EXCEPT !.lastFetch = "failed", !.loading = FALSE,
                          !.cb = "idle"]
  /\ AuthUnchanged

\* Register.handleSubmit with a valid form, up to the await of register()
handleSubmit(role) ==
  /\ Rendered = Page("Register")
  /\ auth.reg = "idle"
  /\ auth' = [auth EXCEPT !.reg = "awaitCreate", !.formRole = role]
  /\ AuthUnchanged

\* createUserWithEmailAndPassword resolves: the user is signed in, the
\* listener is called, and register() goes on to write the profile
CreateUserDone ==
  /\ auth.reg = "awaitCreate"
  /\ auth.cb = "idle"
  /\ auth' = [auth EXCEPT !.currentUser = "u1", !.cb = "called",
                          !.reg = "awaitSetDoc"]
  /\ AuthUnchanged

\* createUserWithEmailAndPassword rejects: setError, the form stays
CreateUserFailed ==
  /\ auth.reg = "awaitCreate"
  /\ auth' = [auth EXCEPT !.reg = "idle", !.formRole = ""]
  /\ AuthUnchanged

\* setDoc(doc(db, 'users', userId), {..., role}) resolves; register() returns
\* success and handleSubmit navigates to /dashboard
SetDocDone ==
  /\ auth.reg = "awaitSetDoc"
  /\ auth' = [auth EXCEPT !.profile = auth.formRole, !.reg = "done",
                          !.path = "/dashboard"]
  /\ AuthUnchanged

\* setDoc rejects; register() returns the error and handleSubmit shows it
SetDocFailed ==
  /\ auth.reg = "awaitSetDoc"
  /\ auth' = [auth EXCEPT !.reg = "failed"]
  /\ AuthUnchanged

\* <Navigate to=... replace /> takes effect
Redirect ==
  /\ Rendered.to # ""
  /\ auth' = [auth EXCEPT !.path = Rendered.to]
  /\ AuthUnchanged

\* the user follows a link or enters a path
UserNavigates(path) ==
  /\ ~auth.loading
  /\ auth.path # path
  /\ auth' = [auth EXCEPT !.path = path]
  /\ AuthUnchanged

NextAuth ==
  \/ \E path \in Paths, persisted \in BOOLEAN, role \in Roles \cup {""} :
       AppLoad(path, persisted, role)
  \/ AuthCallback
  \/ GetDocDone
  \/ GetDocFailed
  \/ \E role \in Roles : handleSubmit(role)
  \/ CreateUserDone
  \/ CreateUserFailed
  \/ SetDocDone
  \/ SetDocFailed
  \/ Redirect
  \/ \E path \in Paths : UserNavigates(path)

\* Redirects take effect, and the Firebase calls of the listener and of
\* register() settle
SpecAuth ==
  /\ Init /\ [][NextAuth]_vars
  /\ WF_vars(Redirect)
  /\ WF_vars(AuthCallback \/ GetDocDone \/ GetDocFailed)
  /\ WF_vars(CreateUserDone \/ CreateUserFailed \/ SetDocDone \/ SetDocFailed)

(***************************************************************************)
(* Properties                                                              *)
(***************************************************************************)
\* the attempts that have ended
Done(r) == req[r].pc = "done"
\* in this step the session read of r resolves and steps 1-3 run
LoadStep(r) ==
  /\ req[r].pc = "awaitSession"
  /\ req'[r].pc # "awaitSession"
  /\ req'[r].outcome # "StorageError"
\* the session document r's lookup finds
Stored(r) == sessions[req[r].sessionId]
\* the radius the geofence check of r is given
RadiusUsed(r) == OrDefault(Stored(r).location.radiusMeters, DefaultRadius)
\* the ended attempts for the pair of r that got as far as the duplicate check
\* or beyond it, without a storage error
SettledForPairOf(r) ==
  {q \in Reqs : /\ Done(q)
                /\ req[q].sessionId = req[r].sessionId
                /\ req[q].studentId = req[r].studentId
                /\ req[q].outcome \in {"Success", "AlreadyMarked"}}

\* C1: the ledger holds at most one record for each (sessionId, studentId)
\* pair, in every reachable state.
C1_AtMostOneRecordPerPair ==
  \A i, j \in 1..Len(attendance) :
    (/\ attendance[i].sessionId = attendance[j].sessionId
     /\ attendance[i].studentId = attendance[j].studentId) => i = j

\* C2: of the attempts for one (sessionId, studentId) pair that passed lookup,
\* expiry and geofence and ended without a storage error, exactly one ended
\* with success and the others with already-marked.
C2_ExactlyOneSucceeds ==
  \A r \in Reqs :
    r \in SettledForPairOf(r) =>
      Cardinality({q \in SettledForPairOf(r) : req[q].outcome = "Success"}) = 1

\* C3: an attempt that arrives after an attempt of the same student for the
\* same session has ended with success never reaches the insert, writes no
\* record, and, when its duplicate query is answered, ends AlreadyMarked
\* with status 400.
C3_RescanIsAlreadyMarked ==
  [][\A r \in Reqs : req[r].afterSuccess =>
       /\ req'[r].pc # "awaitAdd"
       /\ req'[r] # req[r] => attendance' = attendance
       /\ (/\ req[r].pc = "awaitDup"
           /\ req'[r].pc = "done"
           /\ req'[r].outcome # "StorageError")
            => (req'[r].outcome = "AlreadyMarked" /\ req'[r].status = 400)]_vars

C3_Witness ==
  \E r \in Reqs : req[r].afterSuccess /\ req[r].outcome = "AlreadyMarked"

\* C4: steps 1-3 are decided in the order lookup, expiry, geofence, before
\* the duplicate check: an unknown session gives InvalidSession whatever the
\* position; a stored session past its expiry gives Expired, also when the
\* position is out of range; OutOfRange is given only for a stored,
\* unexpired session, also when the pair is already in the ledger.
C4_CheckOrder ==
  [][\A r \in Reqs : LoadStep(r) =>
       IF req[r].sessionId \notin DOMAIN sessions
       THEN req'[r].outcome = "InvalidSession"
       ELSE LET e == Stored(r).expiresAt
                late == e[1] = "iso" /\ now > e[2]
                far == calculateDistance(req[r].location, Stored(r).location.point)
                          > RadiusUsed(r)
            IN  /\ late => req'[r].outcome = "Expired"
                /\ (~late /\ far) => req'[r].outcome = "OutOfRange"
                /\ (~late /\ ~far) => req'[r].pc = "awaitDup"]_vars

\* an attempt that ended Expired although its position was out of range too
\* (the session was written once, so it is the one the attempt was checked
\* against)
C4_Witness ==
  \E r \in Reqs :
    /\ req[r].outcome = "Expired"
    /\ sessionWrites = 1
    /\ req[r].sessionId \in DOMAIN sessions
    /\ calculateDistance(req[r].location, Stored(r).location.point) > RadiusUsed(r)

\* C5: an attempt presenting an id under which the registry holds no session
\* ends with 404, success false, invalid-session, and its step changes
\* neither the ledger nor the registry.
C5_UnknownSession ==
  [][\A r \in Reqs :
       (LoadStep(r) /\ req[r].sessionId \notin DOMAIN sessions) =>
         /\ req'[r].pc = "done"
         /\ req'[r].outcome = "InvalidSession"
         /\ req'[r].status = 404
         /\ ~req'[r].success
         /\ attendance' = attendance
         /\ sessions' = sessions]_vars

C5_Witness ==
  \E r \in Reqs :
    /\ req[r].outcome = "InvalidSession"
    /\ req[r].status = 404
    /\ req[r].sessionId \notin DOMAIN sessions

\* C6: an attempt whose expiry check runs strictly after the session's
\* expiresAt ends Expired, without success, and writes nothing; one checked
\* at or before expiresAt is not ended as Expired.
C6_ExpiryCheck ==
  [][\A r \in Reqs :
       (/\ LoadStep(r)
        /\ req[r].sessionId \in DOMAIN sessions
        /\ Stored(r).expiresAt[1] = "iso") =>
          IF now > Stored(r).expiresAt[2]
          THEN /\ req'[r].pc = "done"
               /\ req'[r].outcome = "Expired"
               /\ ~req'[r].success
               /\ attendance' = attendance
          ELSE req'[r].outcome # "Expired"]_vars

\* the one session ever written was created at the very time it expires; an
\* attempt was recorded at that time, so its expiry check ran at exactly
\* expiresAt, and another attempt ended Expired
C6_Witness ==
  /\ sessionWrites = 1
  /\ \E id \in DOMAIN sessions :
       /\ sessions[id].expiresAt[1] = "iso"
       /\ sessions[id].createdAt = sessions[id].expiresAt
       /\ \E i \in 1..Len(attendance) :
            /\ attendance[i].sessionId = id
            /\ attendance[i].markedAt = sessions[id].expiresAt
       /\ \E r \in Reqs : req[r].sessionId = id /\ req[r].outcome = "Expired"

\* C7: the geofence verdict of an attempt is valid exactly when the computed
\* distance d is at most the radius r it was given, and it carries d and r
\* as distance and maxDistance (answered as distance and required when the
\* attempt is out of range).
C7_InclusiveBoundary ==
  [][\A r \in Reqs :
       (/\ LoadStep(r)
        /\ req[r].sessionId \in DOMAIN sessions
        /\ req'[r].outcome # "Expired") =>
          LET d == calculateDistance(req[r].location, Stored(r).location.point)
          IN  IF d <= RadiusUsed(r)
              THEN /\ req'[r].pc = "awaitDup"
                   /\ req'[r].check = [valid |-> TRUE, distance |-> d,
                                       maxDistance |-> RadiusUsed(r)]
              ELSE /\ req'[r].outcome = "OutOfRange"
                   /\ req'[r].distance = Num(d)
                   /\ req'[r].required = Num(RadiusUsed(r))]_vars

\* one attempt at exactly the radius was admitted, one a metre further was not
C7_Witness ==
  \E r1, r2 \in Reqs :
    /\ req[r1].pc \in {"awaitDup", "awaitAdd"}
    /\ req[r1].check.valid
    /\ req[r1].check.distance = req[r1].check.maxDistance
    /\ req[r2].outcome = "OutOfRange"
    /\ req[r2].distance[2] = req[r2].required[2] + 1

\* C8: for a session whose radiusMeters is unset, zero or negative, the
\* geofence check of an attempt uses the radius 50.
C8_DefaultRadius ==
  [][\A r \in Reqs :
       (/\ LoadStep(r)
        /\ req[r].sessionId \in DOMAIN sessions
        /\ req'[r].outcome # "Expired") =>
          LET rad == Stored(r).location.radiusMeters
          IN  (~IsNum(rad) \/ rad[2] <= 0) =>
                IF req'[r].outcome = "OutOfRange"
                THEN req'[r].required = Num(DefaultRadius)
                ELSE req'[r].check.maxDistance = DefaultRadius]_vars

\* C9: the ledger changes only by one record appended in the step in which an
\* attempt ends with success; every other ending of an attempt leaves ledger
\* and registry as they are; stored records are never changed or removed.
C9_LedgerFrame ==
  [][/\ \A i \in 1..Len(attendance) :
          i <= Len(attendance') /\ attendance'[i] = attendance[i]
     /\ attendance' # attendance =>
          \E r \in Reqs :
            /\ ~Done(r) /\ req'[r].pc = "done" /\ req'[r].outcome = "Success"
            /\ attendance' = Append(attendance, attendance'[Len(attendance')])
            /\ attendance'[Len(attendance')].sessionId = req[r].sessionId
            /\ attendance'[Len(attendance')].studentId = req[r].studentId
     /\ \A r \in Reqs :
          (~Done(r) /\ req'[r].pc = "done") =>
            IF req'[r].outcome = "Success"
            THEN Len(attendance') = Len(attendance) + 1 /\ sessions' = sessions
            ELSE attendance' = attendance /\ sessions' = sessions]_vars

\* the ledger after one attempt succeeded and a later one was turned away
C9_Witness ==
  \E r1, r2 \in Reqs :
    /\ req[r1].outcome = "Success"
    /\ req[r2].outcome = "AlreadyMarked"
    /\ req[r2].sessionId = req[r1].sessionId
    /\ req[r2].studentId = req[r1].studentId
    /\ Len(attendance) = 1

\* C10: an attempt presenting the session id a teacher's dashboard shows as QR
\* code after creating the session never ends with invalid-session.
C10_ScannedSessionIsFound ==
  \A r \in Reqs : (req[r].scanned /\ Done(r)) => req[r].outcome # "InvalidSession"

\* C11: a store into the registry is always under an id the registry did not
\* hold before (a create for an existing id stores nothing).
C11_CreateOnlyFreshId ==
  [][sessionWrites' # sessionWrites =>
       \E id \in DOMAIN sessions' : id \notin DOMAIN sessions]_vars

\* C12: a stored session keeps its origin, radius, expiresAt, issuer and
\* label in every step, and stays in the registry.
C12_SessionImmutable ==
  [][\A id \in DOMAIN sessions :
       /\ id \in DOMAIN sessions'
       /\ sessions'[id].location = sessions[id].location
       /\ sessions'[id].expiresAt = sessions[id].expiresAt
       /\ sessions'[id].teacherId = sessions[id].teacherId
       /\ sessions'[id].courseName = sessions[id].courseName]_vars

\* C13: every stored session has expiresAt > createdAt.
C13_ExpiresAfterCreated ==
  \A id \in DOMAIN sessions :
    /\ sessions[id].expiresAt[1] = "iso"
    /\ sessions[id].createdAt[1] = "iso"
    /\ sessions[id].expiresAt[2] > sessions[id].createdAt[2]

\* C14: every stored session has id, issuer, label, origin, radius and
\* expiresAt, and active = true.
C14_AllFieldsRequired ==
  \A id \in DOMAIN sessions :
    /\ ~MissingId(sessions[id].sessionId)
    /\ ~MissingStr(sessions[id].teacherId)
    /\ ~MissingStr(sessions[id].courseName)
    /\ ~MissingStr(sessions[id].location.point)
    /\ sessions[id].location.radiusMeters # Undefined
    /\ sessions[id].expiresAt # Undefined
    /\ sessions[id].active

\* the steps of an attempt, in their order
Rank(pc) ==
  CASE pc = "idle" -> 0
    [] pc = "awaitSession" -> 1
    [] pc = "awaitDup" -> 2
    [] pc = "awaitAdd" -> 3
    [] pc = "done" -> 4

\* the responses of POST /mark: outcome and HTTP status
Responses ==
  {<<"MissingFields", 400>>, <<"InvalidSession", 404>>, <<"Expired", 400>>,
   <<"OutOfRange", 400>>, <<"AlreadyMarked", 400>>, <<"Success", 200>>,
   <<"StorageError", 500>>}

\* C15: an attempt only moves forward through its steps (session read with
\* lookup, expiry and geofence; duplicate query; insert), each at most once;
\* it has no response before it ends, exactly one of the seven responses when
\* it ends, and that response is never changed or followed by another step;
\* every attempt received does end.
C15_LinearAttempt ==
  /\ [][\A r \in Reqs :
          /\ req'[r] # req[r] => Rank(req'[r].pc) > Rank(req[r].pc)
          /\ req'[r].pc = "done" =>
               <<req'[r].outcome, req'[r].status>> \in Responses
          /\ req'[r].pc # "done" =>
               req'[r].outcome = "" /\ req'[r].status = 0]_vars
  /\ \A r \in Reqs : (req[r].pc # "idle") ~> (req[r].pc = "done")

\* both attempts ended, one through all the steps and one turned away at the
\* duplicate check
C15_Witness ==
  \E r1, r2 \in Reqs :
    /\ req[r1].outcome = "Success"
    /\ req[r2].outcome = "AlreadyMarked"
    /\ \A r \in Reqs : Done(r)

\* C16: an attempt ends with success only in the step in which its insert
\* lands; an attempt one of whose storage operations failed ends with status
\* 500 and success false, stores nothing, and the scanner reports it through
\* onError and starts scanning again.
C16_StorageFailureReported ==
  [][\A r \in Reqs : (~Done(r) /\ req'[r].pc = "done") =>
       /\ req'[r].success =>
            /\ req[r].pc = "awaitAdd"
            /\ Len(attendance') = Len(attendance) + 1
            /\ attendance'[Len(attendance')].sessionId = req[r].sessionId
            /\ attendance'[Len(attendance')].studentId = req[r].studentId
       /\ req'[r].outcome = "StorageError" =>
            /\ req'[r].status = 500
            /\ ~req'[r].success
            /\ attendance' = attendance
            /\ LET shown == onScanSuccess(req'[r].status, req'[r].success)
               IN  shown.callback = "onError" /\ shown.scanning]_vars

\* one attempt failed at a storage operation, the next one went through
C16_Witness ==
  \E r1, r2 \in Reqs :
    /\ r1 < r2
    /\ req[r1].outcome = "StorageError" /\ req[r1].status = 500
    /\ req[r2].outcome = "Success"
    /\ req[r2].sessionId = req[r1].sessionId
    /\ req[r2].studentId = req[r1].studentId

\* a position on Earth: latitude in [-90, 90], longitude in [-180, 180]
WellFormedPosition(p) ==
  /\ Coordinates[p].latitude \in -90000000..90000000
  /\ Coordinates[p].longitude \in -180000000..180000000

\* C17: an attempt whose reported position is malformed never ends
\* OutOfRange or success, and no distance is answered for it.
C17_MalformedPositionRejected ==
  \A r \in Reqs :
    (/\ Done(r)
     /\ ~MissingStr(req[r].location)
     /\ ~WellFormedPosition(req[r].location)) =>
       /\ req[r].outcome \notin {"OutOfRange", "Success"}
       /\ req[r].distance = Undefined

\* C18: an OutOfRange response carries the distance computed for the attempt
\* and the radius its geofence check used; the attempt that goes on keeps
\* that distance and the course name of the session it read; a success
\* response carries them, and the record inserted holds the same distance.
C18_OutcomePayload ==
  [][\A r \in Reqs :
       /\ (LoadStep(r) /\ req'[r].outcome = "OutOfRange") =>
            /\ req'[r].distance =
                 Num(calculateDistance(req[r].location, Stored(r).location.point))
            /\ req'[r].required = Num(RadiusUsed(r))
       /\ (LoadStep(r) /\ req'[r].pc = "awaitDup") =>
            /\ req'[r].check.distance =
                 calculateDistance(req[r].location, Stored(r).location.point)
            /\ req'[r].courseName = Stored(r).courseName
       /\ (req[r].pc = "awaitDup" /\ req'[r].pc = "awaitAdd") =>
            /\ req'[r].check = req[r].check
            /\ req'[r].courseName = req[r].courseName
       /\ (req[r].pc = "awaitAdd" /\ req'[r].outcome = "Success") =>
            /\ req'[r].distance = Num(req[r].check.distance)
            /\ req'[r].required = Undefined
            /\ req'[r].course = req[r].courseName
            /\ Len(attendance') = Len(attendance) + 1
            /\ attendance'[Len(attendance')].distance = req[r].check.distance
            /\ attendance'[Len(attendance')].courseName = req[r].courseName]_vars

\* one attempt turned away 51 m from an origin with radius 50, one admitted
\* at 50 m and recorded with that distance
C18_Witness ==
  \E r1, r2 \in Reqs :
    /\ req[r1].outcome = "OutOfRange"
    /\ req[r1].distance = Num(51) /\ req[r1].required = Num(DefaultRadius)
    /\ req[r2].outcome = "Success"
    /\ req[r2].distance = Num(50) /\ req[r2].course = "CS101"
    /\ \E i \in 1..Len(attendance) :
         /\ attendance[i].studentId = req[r2].studentId
         /\ attendance[i].distance = 50

\* the records of the ledger for one (sessionId, studentId) pair
RecordsOfPair(sessionId, studentId) ==
  {i \in 1..Len(attendance) :
     attendance[i].sessionId = sessionId /\ attendance[i].studentId = studentId}

\* C19: a step of an attempt changes no other attempt, adds records for its
\* own pair only and changes no stored record; and the answer to its
\* duplicate query depends on the records of its own pair alone, whatever
\* attempts for other pairs have run or are running.
C19_PairsIndependent ==
  [][\A r \in Reqs : req'[r] # req[r] =>
       /\ \A q \in Reqs \ {r} : req'[q] = req[q]
       /\ Len(attendance') >= Len(attendance)
       /\ \A i \in 1..Len(attendance') :
            IF i <= Len(attendance)
            THEN attendance'[i] = attendance[i]
            ELSE /\ attendance'[i].sessionId = req'[r].sessionId
                 /\ attendance'[i].studentId = req'[r].studentId
       /\ (/\ req[r].pc = "awaitDup"
           /\ req'[r].outcome # "StorageError") =>
            IF RecordsOfPair(req[r].sessionId, req[r].studentId) # {}
            THEN req'[r].outcome = "AlreadyMarked"
            ELSE req'[r].pc = "awaitAdd"]_vars

\* two students admitted to the same session, each with a record of their own
C19_Witness ==
  \E r1, r2 \in Reqs :
    /\ req[r1].studentId # req[r2].studentId
    /\ req[r1].outcome = "Success" /\ req[r2].outcome = "Success"
    /\ RecordsOfPair(req[r1].sessionId, req[r1].studentId) # {}
    /\ RecordsOfPair(req[r2].sessionId, req[r2].studentId) # {}
    /\ Len(attendance) = 2

\* C20: an attempt answered AlreadyMarked is not presented to the student as
\* an error.
C20_AlreadyMarkedIsNoError ==
  \A r \in Reqs :
    (Done(r) /\ req[r].outcome = "AlreadyMarked") =>
      /\ onScanSuccess(req[r].status, req[r].success).callback # "onError"
      /\ onScanSuccess(req[r].status, req[r].success).message # "error"

ExpectedLimit(v) ==
  CASE v = NoParam -> 100
    [] v = Param(<<"a", "b", "c">>) -> 100
    [] v = Param(<<"0">>) -> 100
    [] v = Param(<<"1">>) -> 1
    [] v = Param(<<"2", "x">>) -> 2

\* C22: a successful answer of GET /records holds only records of the
\* session asked for, newest first, as many as the limit allows (100 when the
\* parameter is absent, unparsable or zero) and no record left out is newer
\* than one returned; no answer changes the ledger.
C22_RecordsOfSession ==
  [][fetched' # fetched =>
       /\ attendance' = attendance
       /\ fetched'.success =>
            LET recs == fetched'.records
                match == {i \in 1..Len(attendance) :
                            attendance[i].sessionId = fetched'.sessionId}
                lim == ExpectedLimit(fetched'.limitParam)
            IN  /\ fetched'.count = Len(recs)
                /\ Len(recs) = IF Cardinality(match) < lim
                               THEN Cardinality(match) ELSE lim
                /\ \A k \in 1..Len(recs) :
                     /\ recs[k].sessionId = fetched'.sessionId
                     /\ \E i \in match : attendance[i] = recs[k]
                /\ \A k \in 1..(Len(recs) - 1) :
                     recs[k].markedAt[2] >= recs[k + 1].markedAt[2]
                /\ \A i \in match :
                     (\A k \in 1..Len(recs) : recs[k] # attendance[i]) =>
                       \A k \in 1..Len(recs) :
                         recs[k].markedAt[2] >= attendance[i].markedAt[2]]_vars

\* the session has an older and a newer record besides one of another
\* session; asked with limit 1 the answer is the newer one alone, asked
\* without limit it would be both
C22_Witness ==
  /\ fetched.success /\ fetched.limitParam = Param(<<"1">>)
  /\ fetched.count = 1
  /\ \E i \in 1..Len(attendance) :
       /\ attendance[i].sessionId = fetched.sessionId
       /\ attendance[i].markedAt[2] < fetched.records[1].markedAt[2]

\* C23: the distance computed for a pair of positions is a non-negative
\* integer, equals the distance computed for the pair the other way round,
\* and is 0 for a position and itself.
C23_DistanceSymmetric ==
  calc.called =>
    /\ IsNum(calc.distance)
    /\ calc.distance[2] \in Nat
    /\ Haversine[calc.classPos][calc.studentPos] = calc.distance
    /\ calc.studentPos = calc.classPos => calc.distance = Num(0)

\* C24: once register() has returned success for role R and the auth-state
\* callback has run to its end, its role fetch not having failed, the role
\* the app routes by is R, and /dashboard shows the dashboard of R.
C24_RegisteredSeesDashboard ==
  (auth.reg = "done" /\ auth.cb = "idle" /\ auth.lastFetch # "failed") =>
    /\ auth.userRole = auth.formRole
    /\ auth.path = "/dashboard" =>
         Rendered = DashboardRouter(auth.formRole)

\* following the redirects from a path ends at a rendered page within n
\* redirects, the auth state staying as it is
RECURSIVE SettlesWithin(_, _)
SettlesWithin(path, n) ==
  LET r == AppRoutes(path, auth.user, auth.userRole, auth.loading)
  IN  \/ r.to = ""
      \/ n > 0 /\ SettlesWithin(r.to, n - 1)

\* C28: in every auth state with loading = false in which no Firebase call is
\* pending, following the redirects from the current path ends at a rendered
\* page: no path is redirected to twice.
C28_RoutingSettles ==
  (~auth.loading /\ auth.cb = "idle"
     /\ auth.reg \notin {"awaitCreate", "awaitSetDoc"}) =>
    SettlesWithin(auth.path, Cardinality(Paths))

\* C25: between a decoded code and the restart of the scanner QRScanner sends
\* at most one POST /api/attendance/mark, however many times the success
\* callback is delivered.
C25_OnePostPerDecode == scanner.posts <= 1

\* C29: once QRScanner has unmounted no scanner instance is rendering, and
\* at no time is more than one instance rendering.
C29_NoScannerAfterUnmount ==
  /\ scanner.unmounted => scanner.active = {}
  /\ Cardinality(scanner.active) <= 1

\* the n latest of a set of markedAt values, latest first
RECURSIVE LatestFirst(_, _)
LatestFirst(S, n) ==
  IF n = 0 \/ S = {} THEN <<>>
  ELSE LET latest == CHOOSE x \in S : \A y \in S : y <= x
       IN  <<latest>> \o LatestFirst(S \ {latest}, n - 1)

\* C26: whenever the history list changes, it is the 20 records with the
\* latest markedAt among all records stored for the student, newest first.
C26_HistoryIsLatest ==
  [][history'.shown # history.shown =>
       history'.shown = LatestFirst(history.stored, ShowLimit)]_vars

\* C27: no two sessions that the dashboards of different teachers stored in
\* the registry carry the same sessionId.
C27_SessionIdsUnique ==
  \A k1, k2 \in DOMAIN sessions :
    sessions[k1].teacherId # sessions[k2].teacherId =>
      sessions[k1].sessionId # sessions[k2].sessionId

\* C30: every ledger record names a session of the registry, and, the
\* registry having been written once, its markedAt is not later than that
\* session's expiresAt.
C30_MarkedBeforeExpiry ==
  \A i \in 1..Len(attendance) :
    /\ attendance[i].sessionId \in DOMAIN sessions
    /\ (sessionWrites = 1
          /\ sessions[attendance[i].sessionId].expiresAt[1] = "iso") =>
         attendance[i].markedAt[2]
           <= sessions[attendance[i].sessionId].expiresAt[2]

====
